---------------------------- MODULE Spec2Model ----------------------------
(***************************************************************************)
(* A model of pydantic-core's document-tree input (impl Input for          *)
(* JsonInput, impl Input for String: src/input/input_json.rs) and of its   *)
(* ValidationError aggregate (src/errors/validation_exception.rs).         *)
(*                                                                         *)
(* Text is a sequence of one-character strings; a float is an exact        *)
(* fraction [n, d] in lowest terms; a value of the program is a record     *)
(* whose field names say which variant it is.                              *)
(***************************************************************************)
EXTENDS Integers, Sequences, FiniteSets, TLC

VARIABLES
    session,    \* which part of the interface this behaviour exercises
    input,      \* the value a coercion method is called on
    call,       \* the coercion method called last ("none" before any call)
    result,     \* what that call returned
    val_error,  \* the ValError in hand: a validator's outcome, or one converted back
    exc,        \* the PyErr raised last
    caught,     \* the ValidationError a wrap function caught and converted back
    ret,        \* what the last read-only method of the aggregate returned
    rendered    \* the input_value part of the last pretty() line

vars == <<session, input, call, result, val_error, exc, caught, ret, rendered>>

None == [none |-> TRUE]

----------------------------------------------------------------------------
(* Bounds of the model.                                                    *)

\* Texts over Alphabet are enumerated up to this length.
MaxTextLen == 3
\* Int inputs range over -MaxInt..MaxInt, Float inputs over the halves between.
MaxInt == 4
\* Arrays and objects hold at most this many items.
MaxArrayLen == 2
\* An aggregate is built from at most this many line errors.
MaxErrors == 2
\* A displayable form is MaxRun ASCII characters at most on each side of
\* at most MaxWide two-byte characters.
MaxRun == 30
MaxWide == 3

----------------------------------------------------------------------------
(* Text.                                                                   *)

Digits == <<"0", "1", "2", "3", "4", "5", "6", "7", "8", "9">>

IsDigit(c) == \E i \in 1..10 : Digits[i] = c

DigitVal(c) == (CHOOSE i \in 1..10 : Digits[i] = c) - 1

AllDigits(s) == \A i \in 1..Len(s) : IsDigit(s[i])

RECURSIVE DigitsVal(_)
DigitsVal(s) ==
    IF s = <<>> THEN 0
    ELSE 10 * DigitsVal(SubSeq(s, 1, Len(s) - 1)) + DigitVal(s[Len(s)])

RECURSIVE Pow10(_)
Pow10(k) == IF k = 0 THEN 1 ELSE 10 * Pow10(k - 1)

RECURSIVE GCD(_, _)
GCD(a, b) == IF b = 0 THEN a ELSE GCD(b, a % b)

\* The float n/d, in lowest terms.
Flt(n, d) ==
    LET g == GCD(IF n < 0 THEN -n ELSE n, d)
    IN  IF n = 0 THEN [n |-> 0, d |-> 1] ELSE [n |-> n \div g, d |-> d \div g]

RECURSIVE NatToText(_)
NatToText(k) ==
    IF k < 10 THEN <<Digits[k + 1]>>
    ELSE NatToText(k \div 10) \o <<Digits[(k % 10) + 1]>>

\* i64::to_string
IntToString(i) == IF i < 0 THEN <<"-">> \o NatToText(-i) ELSE NatToText(i)

\* The decimal digits of the fraction r/d, 0 <= r < d (d divides a power of 10).
RECURSIVE FracDigits(_, _)
FracDigits(r, d) ==
    IF r = 0 THEN <<>>
    ELSE <<Digits[((10 * r) \div d) + 1]>> \o FracDigits((10 * r) % d, d)

\* f64::to_string: the shortest decimal; a whole float prints without ".0".
FloatToString(f) ==
    LET a == IF f.n < 0 THEN -f.n ELSE f.n
        whole == NatToText(a \div f.d)
        frac == FracDigits(a % f.d, f.d)
    IN  (IF f.n < 0 THEN <<"-">> ELSE <<>>)
        \o whole \o (IF frac = <<>> THEN <<>> ELSE <<".">> \o frac)

\* str::parse::<i64>: an optional sign, then one digit or more, nothing else.
\* (The texts of the model are too short to overflow an i64.)
ParseI64(s) ==
    LET signed == s # <<>> /\ s[1] \in {"+", "-"}
        body == IF signed THEN Tail(s) ELSE s
    IN  IF body # <<>> /\ AllDigits(body)
        THEN [ok |-> TRUE,
              int |-> IF signed /\ s[1] = "-" THEN -DigitsVal(body) ELSE DigitsVal(body)]
        ELSE [ok |-> FALSE]

\* str::parse::<f64>, for decimal text without an exponent: an optional sign,
\* digits with at most one ".", and a digit on at least one side of it.
ParseF64(s) ==
    LET signed == s # <<>> /\ s[1] \in {"+", "-"}
        body == IF signed THEN Tail(s) ELSE s
        dots == {i \in 1..Len(body) : body[i] = "."}
        p == IF dots = {} THEN Len(body) + 1 ELSE CHOOSE i \in dots : TRUE
        whole == SubSeq(body, 1, p - 1)
        frac == SubSeq(body, p + 1, Len(body))
        mag == DigitsVal(whole \o frac)
    IN  IF /\ Cardinality(dots) <= 1
           /\ AllDigits(whole) /\ AllDigits(frac)
           /\ Len(whole) + Len(frac) >= 1
        THEN [ok |-> TRUE,
              float |-> Flt(IF signed /\ s[1] = "-" THEN -mag ELSE mag, Pow10(Len(frac)))]
        ELSE [ok |-> FALSE]

----------------------------------------------------------------------------
(* Values: JsonInput (the document tree), the error value of a failure,    *)
(* and what a coercion returns.                                            *)

JNull == [t |-> "Null"]
JBool(b) == [t |-> "Bool", b |-> b]
JInt(i) == [t |-> "Int", i |-> i]
JFloat(f) == [t |-> "Float", f |-> f]
JString(s) == [t |-> "String", s |-> s]
JArray(a) == [t |-> "Array", a |-> a]
JObject(o) == [t |-> "Object", o |-> o]

\* A bare String used as input (a dict key).
BareString(s) == [t |-> "BareString", s |-> s]

\* InputValue: the offending value an error refers to.
IV_JsonInput(v) == [iv |-> "JsonInput", json |-> v]
IV_String(s) == [iv |-> "String", s |-> s]
IV_PyObject(o) == [iv |-> "PyObject", py |-> o]

\* ValError::new: one line error of the given kind, at the empty location.
ValError_new(kind, iv) ==
    [ve |-> "LineErrors",
     line_errors |-> <<[kind |-> kind, location |-> <<>>, input_value |-> iv]>>]

Ok(v) == [ok |-> TRUE, v |-> v]
Err(kind, iv) == [ok |-> FALSE, err |-> ValError_new(kind, iv)]

VStr(s) == [str |-> s]
VBytes(s) == [bytes |-> s]
VBool(b) == [bool |-> b]
VInt(i) == [int |-> i]
VFloat(f) == [float |-> f]
\* GenericMapping::JsonObject and GenericSequence::JsonArray: views of the tree.
VMapping(o) == [mapping |-> "JsonObject", items |-> o]
VSequence(a) == [sequence |-> "JsonArray", items |-> a]

----------------------------------------------------------------------------
(* input/shared.rs: the coercions shared by the input representations.     *)

Upper == <<"A", "B", "C", "D", "E", "F", "G", "H", "I", "J", "K", "L", "M",
           "N", "O", "P", "Q", "R", "S", "T", "U", "V", "W", "X", "Y", "Z">>
Lower == <<"a", "b", "c", "d", "e", "f", "g", "h", "i", "j", "k", "l", "m",
           "n", "o", "p", "q", "r", "s", "t", "u", "v", "w", "x", "y", "z">>

ToLowerChar(c) ==
    IF \E i \in 1..Len(Upper) : Upper[i] = c
    THEN Lower[CHOOSE i \in 1..Len(Upper) : Upper[i] = c]
    ELSE c

ToLower(s) == [i \in 1..Len(s) |-> ToLowerChar(s[i])]

TrueTokens == {<<"t", "r", "u", "e">>, <<"y", "e", "s">>, <<"1">>, <<"o", "n">>}
FalseTokens == {<<"f", "a", "l", "s", "e">>, <<"n", "o">>, <<"0">>, <<"o", "f", "f">>}

\* A string is a boolean only when it is one of the allow-list tokens.
str_as_bool(iv, s) ==
    IF ToLower(s) \in TrueTokens THEN Ok(VBool(TRUE))
    ELSE IF ToLower(s) \in FalseTokens THEN Ok(VBool(FALSE))
    ELSE Err("BoolParsing", iv)

\* An integer is a boolean only when it is 0 or 1.
int_as_bool(iv, i) ==
    IF i = 0 THEN Ok(VBool(FALSE))
    ELSE IF i = 1 THEN Ok(VBool(TRUE))
    ELSE Err("BoolParsing", iv)

\* A float is an integer only when it has no fractional part.
float_as_int(iv, f) ==
    IF f.d = 1 THEN Ok(VInt(f.n)) ELSE Err("FloatNotInt", iv)

\* A string is an integer only when it parses as a base-10 integer.
str_as_int(iv, s) ==
    IF ParseI64(s).ok THEN Ok(VInt(ParseI64(s).int)) ELSE Err("IntParsing", iv)

----------------------------------------------------------------------------
(* input/datetime.rs: text and numbers as dates, times and durations.      *)

SecondsPerDay == 86400
\* The model's stand-ins for the largest epoch second a datetime holds and
\* the largest number of seconds a duration holds.
MaxEpochSeconds == 200000
MaxDurationSeconds == 300000

TwoDigits(s, i) == DigitsVal(SubSeq(s, i, i + 1))

\* hh:mm
IsTimeText(s) ==
    /\ Len(s) = 5 /\ s[3] = ":"
    /\ AllDigits(SubSeq(s, 1, 2)) /\ AllDigits(SubSeq(s, 4, 5))
    /\ TwoDigits(s, 1) < 24 /\ TwoDigits(s, 4) < 60

\* yyyy-mm-dd
IsDateText(s) ==
    /\ Len(s) = 10 /\ s[5] = "-" /\ s[8] = "-"
    /\ AllDigits(SubSeq(s, 1, 4)) /\ AllDigits(SubSeq(s, 6, 7)) /\ AllDigits(SubSeq(s, 9, 10))
    /\ TwoDigits(s, 6) \in 1..12 /\ TwoDigits(s, 9) \in 1..31

TimeOfText(s) == 3600 * TwoDigits(s, 1) + 60 * TwoDigits(s, 4)

bytes_as_date(iv, s) ==
    IF IsDateText(s) THEN Ok([date |-> s]) ELSE Err("DateParsing", iv)

bytes_as_time(iv, s) ==
    IF IsTimeText(s) THEN Ok([time |-> TimeOfText(s), micro |-> 0])
    ELSE Err("TimeParsing", iv)

\* yyyy-mm-ddThh:mm
bytes_as_datetime(iv, s) ==
    IF /\ Len(s) = 16 /\ s[11] = "T"
       /\ IsDateText(SubSeq(s, 1, 10)) /\ IsTimeText(SubSeq(s, 12, 16))
    THEN Ok([datetime |-> [date |-> SubSeq(s, 1, 10), time |-> TimeOfText(SubSeq(s, 12, 16))],
             micro |-> 0])
    ELSE Err("DateTimeParsing", iv)

\* PnD
bytes_as_timedelta(iv, s) ==
    IF /\ Len(s) >= 3 /\ s[1] = "P" /\ s[Len(s)] = "D"
       /\ AllDigits(SubSeq(s, 2, Len(s) - 1))
    THEN Ok([timedelta |-> "Raw",
             d |-> [seconds |-> SecondsPerDay * DigitsVal(SubSeq(s, 2, Len(s) - 1)), micro |-> 0]])
    ELSE Err("TimeDeltaParsing", iv)

\* The whole seconds of a float, rounded down, and the rest in microseconds.
FloatSeconds(f) == (f.n - (f.n % f.d)) \div f.d
FloatMicros(f) == ((f.n % f.d) * 1000000) \div f.d

TimeInRange(ts) == 0 <= ts /\ ts < SecondsPerDay
DateTimeInRange(ts) == -MaxEpochSeconds <= ts /\ ts <= MaxEpochSeconds
DurationInRange(ts) == -MaxDurationSeconds <= ts /\ ts <= MaxDurationSeconds

\* A number of seconds is a time of day only within one day.
int_as_time(iv, ts, micro) ==
    IF TimeInRange(ts) THEN Ok([time |-> ts, micro |-> micro])
    ELSE Err("TimeOutOfRange", iv)

float_as_time(iv, f) == int_as_time(iv, FloatSeconds(f), FloatMicros(f))

\* A number of seconds is a datetime only within the epoch range.
int_as_datetime(iv, ts, micro) ==
    IF DateTimeInRange(ts) THEN Ok([datetime |-> [epoch |-> ts], micro |-> micro])
    ELSE Err("DateTimeOutOfRange", iv)

float_as_datetime(iv, f) == int_as_datetime(iv, FloatSeconds(f), FloatMicros(f))

\* These two return a Duration, not a ValResult: they have no failure to report.
int_as_duration(ts) == [seconds |-> ts, micro |-> 0]
float_as_duration(f) == [seconds |-> FloatSeconds(f), micro |-> FloatMicros(f)]

\* Duration::into::<EitherTimedelta>
EitherTimedelta_Raw(d) == [timedelta |-> "Raw", d |-> d]

----------------------------------------------------------------------------
(* impl Input for JsonInput.                                               *)

\* LocItem::I(*i as usize): a negative i wraps to 2^64 - |i|.
JsonInput_as_loc_item(v) ==
    IF v.t = "Int"
    THEN (IF v.i >= 0 THEN [loc_i |-> v.i] ELSE [loc_i_wrapped_below_2_64 |-> -v.i])
    ELSE IF v.t = "String" THEN [loc_s |-> v.s]
    ELSE [loc_s_debug |-> v]

JsonInput_as_error_value(v) == IV_JsonInput(v)

JsonInput_is_none(v) == v.t = "Null"

JsonInput_strict_str(v) ==
    IF v.t = "String" THEN Ok(VStr(v.s))
    ELSE Err("StrType", JsonInput_as_error_value(v))

JsonInput_lax_str(v) ==
    IF v.t = "String" THEN Ok(VStr(v.s))
    ELSE IF v.t = "Int" THEN Ok(VStr(IntToString(v.i)))
    ELSE IF v.t = "Float" THEN Ok(VStr(FloatToString(v.f)))
    ELSE Err("StrType", JsonInput_as_error_value(v))

JsonInput_validate_bytes(v, strict) ==
    IF v.t = "String" THEN Ok(VBytes(v.s))
    ELSE Err("BytesType", JsonInput_as_error_value(v))

JsonInput_strict_bytes(v) == JsonInput_validate_bytes(v, FALSE)

JsonInput_strict_bool(v) ==
    IF v.t = "Bool" THEN Ok(VBool(v.b))
    ELSE Err("BoolType", JsonInput_as_error_value(v))

\* JsonInput_lax_bool with the String arm reporting BoolType.
JsonInput_lax_bool_string_type(v) ==
    LET iv == JsonInput_as_error_value(v) IN
    IF v.t = "Bool" THEN Ok(VBool(v.b))
    ELSE IF v.t = "String"
         THEN (IF str_as_bool(iv, v.s).ok THEN str_as_bool(iv, v.s) ELSE Err("BoolType", iv))
    ELSE IF v.t = "Int" THEN int_as_bool(iv, v.i)
    ELSE IF v.t = "Float"
         THEN (IF float_as_int(iv, v.f).ok
               THEN int_as_bool(iv, float_as_int(iv, v.f).v.int)
               ELSE Err("BoolType", iv))
    ELSE Err("BoolType", iv)

JsonInput_lax_bool(v) ==
    LET iv == JsonInput_as_error_value(v) IN
    IF v.t = "Bool" THEN Ok(VBool(v.b))
    ELSE IF v.t = "String" THEN str_as_bool(iv, v.s)
    ELSE IF v.t = "Int" THEN int_as_bool(iv, v.i)
    ELSE IF v.t = "Float"
         THEN (IF float_as_int(iv, v.f).ok
               THEN int_as_bool(iv, float_as_int(iv, v.f).v.int)
               ELSE Err("BoolType", iv))
    ELSE Err("BoolType", iv)

JsonInput_strict_int(v) ==
    IF v.t = "Int" THEN Ok(VInt(v.i))
    ELSE Err("IntType", JsonInput_as_error_value(v))

\* JsonInput_lax_int with the Float arm reporting the generic kind.
JsonInput_lax_int_generic_kind(v) ==
    LET iv == JsonInput_as_error_value(v) IN
    IF v.t = "Bool" THEN (IF v.b THEN Ok(VInt(1)) ELSE Ok(VInt(0)))
    ELSE IF v.t = "Int" THEN Ok(VInt(v.i))
    ELSE IF v.t = "Float"
         THEN (IF float_as_int(iv, v.f).ok THEN float_as_int(iv, v.f) ELSE Err("IntType", iv))
    ELSE IF v.t = "String" THEN str_as_int(iv, v.s)
    ELSE Err("IntType", iv)

JsonInput_lax_int(v) ==
    LET iv == JsonInput_as_error_value(v) IN
    IF v.t = "Bool" THEN (IF v.b THEN Ok(VInt(1)) ELSE Ok(VInt(0)))
    ELSE IF v.t = "Int" THEN Ok(VInt(v.i))
    ELSE IF v.t = "Float" THEN float_as_int(iv, v.f)
    ELSE IF v.t = "String" THEN str_as_int(iv, v.s)
    ELSE Err("IntType", iv)

\* *i as f64
IntAsF64(i) == Flt(i, 1)

\* JsonInput_strict_float without its Int arm.
JsonInput_strict_float_no_int(v) ==
    IF v.t = "Float" THEN Ok(VFloat(v.f))
    ELSE Err("FloatType", JsonInput_as_error_value(v))

JsonInput_strict_float(v) ==
    IF v.t = "Float" THEN Ok(VFloat(v.f))
    ELSE IF v.t = "Int" THEN Ok(VFloat(IntAsF64(v.i)))
    ELSE Err("FloatType", JsonInput_as_error_value(v))

\* JsonInput_lax_float without its Int arm.
JsonInput_lax_float_no_int(v) ==
    LET iv == JsonInput_as_error_value(v) IN
    IF v.t = "Bool" THEN (IF v.b THEN Ok(VFloat(Flt(1, 1))) ELSE Ok(VFloat(Flt(0, 1))))
    ELSE IF v.t = "Float" THEN Ok(VFloat(v.f))
    ELSE IF v.t = "String"
         THEN (IF ParseF64(v.s).ok THEN Ok(VFloat(ParseF64(v.s).float))
               ELSE Err("FloatParsing", iv))
    ELSE Err("FloatType", iv)

JsonInput_lax_float(v) ==
    LET iv == JsonInput_as_error_value(v) IN
    IF v.t = "Bool" THEN (IF v.b THEN Ok(VFloat(Flt(1, 1))) ELSE Ok(VFloat(Flt(0, 1))))
    ELSE IF v.t = "Float" THEN Ok(VFloat(v.f))
    ELSE IF v.t = "Int" THEN Ok(VFloat(IntAsF64(v.i)))
    ELSE IF v.t = "String"
         THEN (IF ParseF64(v.s).ok THEN Ok(VFloat(ParseF64(v.s).float))
               ELSE Err("FloatParsing", iv))
    ELSE Err("FloatType", iv)

JsonInput_validate_dict(v, strict) ==
    IF v.t = "Object" THEN Ok(VMapping(v.o))
    ELSE Err("DictType", JsonInput_as_error_value(v))

JsonInput_strict_dict(v) == JsonInput_validate_dict(v, FALSE)

JsonInput_validate_list(v, strict) ==
    IF v.t = "Array" THEN Ok(VSequence(v.a))
    ELSE Err("ListType", JsonInput_as_error_value(v))

JsonInput_strict_list(v) == JsonInput_validate_list(v, FALSE)

JsonInput_validate_tuple(v, strict) ==
    IF v.t = "Array" THEN Ok(VSequence(v.a))
    ELSE Err("TupleType", JsonInput_as_error_value(v))

JsonInput_strict_tuple(v) == JsonInput_validate_tuple(v, FALSE)

JsonInput_validate_set(v, strict) ==
    IF v.t = "Array" THEN Ok(VSequence(v.a))
    ELSE Err("SetType", JsonInput_as_error_value(v))

JsonInput_strict_set(v) == JsonInput_validate_set(v, FALSE)

\* JsonInput_validate_frozenset refusing an Array in strict mode.
JsonInput_validate_frozenset_strict_refuses(v, strict) ==
    IF v.t = "Array" /\ ~strict THEN Ok(VSequence(v.a))
    ELSE Err("FrozenSetType", JsonInput_as_error_value(v))

JsonInput_validate_frozenset(v, strict) ==
    IF v.t = "Array" THEN Ok(VSequence(v.a))
    ELSE Err("FrozenSetType", JsonInput_as_error_value(v))

JsonInput_strict_frozenset(v) == JsonInput_validate_frozenset(v, FALSE)

JsonInput_validate_date(v, strict) ==
    IF v.t = "String" THEN bytes_as_date(JsonInput_as_error_value(v), v.s)
    ELSE Err("DateType", JsonInput_as_error_value(v))

JsonInput_strict_date(v) == JsonInput_validate_date(v, FALSE)

JsonInput_strict_time(v) ==
    IF v.t = "String" THEN bytes_as_time(JsonInput_as_error_value(v), v.s)
    ELSE Err("TimeType", JsonInput_as_error_value(v))

JsonInput_lax_time(v) ==
    LET iv == JsonInput_as_error_value(v) IN
    IF v.t = "String" THEN bytes_as_time(iv, v.s)
    ELSE IF v.t = "Int" THEN int_as_time(iv, v.i, 0)
    ELSE IF v.t = "Float" THEN float_as_time(iv, v.f)
    ELSE Err("TimeType", iv)

JsonInput_strict_datetime(v) ==
    IF v.t = "String" THEN bytes_as_datetime(JsonInput_as_error_value(v), v.s)
    ELSE Err("DateTimeType", JsonInput_as_error_value(v))

JsonInput_lax_datetime(v) ==
    LET iv == JsonInput_as_error_value(v) IN
    IF v.t = "String" THEN bytes_as_datetime(iv, v.s)
    ELSE IF v.t = "Int" THEN int_as_datetime(iv, v.i, 0)
    ELSE IF v.t = "Float" THEN float_as_datetime(iv, v.f)
    ELSE Err("DateTimeType", iv)

JsonInput_strict_timedelta(v) ==
    IF v.t = "String" THEN bytes_as_timedelta(JsonInput_as_error_value(v), v.s)
    ELSE Err("TimeDeltaType", JsonInput_as_error_value(v))

JsonInput_lax_timedelta(v) ==
    LET iv == JsonInput_as_error_value(v) IN
    IF v.t = "String" THEN bytes_as_timedelta(iv, v.s)
    ELSE IF v.t = "Int" THEN Ok(EitherTimedelta_Raw(int_as_duration(v.i)))
    ELSE IF v.t = "Float" THEN Ok(EitherTimedelta_Raw(float_as_duration(v.f)))
    ELSE Err("TimeDeltaType", iv)

----------------------------------------------------------------------------
(* impl Input for String: a bare string, as a dict key is.                 *)

String_as_loc_item(s) == [loc_s |-> s]

String_as_error_value(s) == IV_String(s)

String_is_none(s) == FALSE

String_validate_str(s, strict) == Ok(VStr(s))

String_strict_str(s) == String_validate_str(s, FALSE)

String_validate_bytes(s, strict) == Ok(VBytes(s))

String_strict_bytes(s) == String_validate_bytes(s, FALSE)

String_strict_bool(s) == Err("BoolType", String_as_error_value(s))

String_lax_bool(s) == str_as_bool(String_as_error_value(s), s)

String_strict_int(s) == Err("IntType", String_as_error_value(s))

\* String_lax_int falling back to a float without a fractional part.
String_lax_int_float_fallback(s) ==
    IF ParseI64(s).ok THEN Ok(VInt(ParseI64(s).int))
    ELSE IF ParseF64(s).ok /\ ParseF64(s).float.d = 1 THEN Ok(VInt(ParseF64(s).float.n))
    ELSE Err("IntParsing", String_as_error_value(s))

String_lax_int(s) ==
    IF ParseI64(s).ok THEN Ok(VInt(ParseI64(s).int))
    ELSE Err("IntParsing", String_as_error_value(s))

String_strict_float(s) == Err("FloatType", String_as_error_value(s))

String_lax_float(s) ==
    IF ParseF64(s).ok THEN Ok(VFloat(ParseF64(s).float))
    ELSE Err("FloatParsing", String_as_error_value(s))

String_validate_dict(s, strict) == Err("DictType", String_as_error_value(s))

String_strict_dict(s) == String_validate_dict(s, FALSE)

String_validate_list(s, strict) == Err("ListType", String_as_error_value(s))

String_strict_list(s) == String_validate_list(s, FALSE)

String_validate_tuple(s, strict) == Err("TupleType", String_as_error_value(s))

String_strict_tuple(s) == String_validate_tuple(s, FALSE)

String_validate_set(s, strict) == Err("SetType", String_as_error_value(s))

String_strict_set(s) == String_validate_set(s, FALSE)

String_validate_frozenset(s, strict) == Err("FrozenSetType", String_as_error_value(s))

String_strict_frozenset(s) == String_validate_frozenset(s, FALSE)

String_validate_date(s, strict) == bytes_as_date(String_as_error_value(s), s)

String_strict_date(s) == String_validate_date(s, FALSE)

String_validate_time(s, strict) == bytes_as_time(String_as_error_value(s), s)

String_strict_time(s) == String_validate_time(s, FALSE)

String_validate_datetime(s, strict) == bytes_as_datetime(String_as_error_value(s), s)

String_strict_datetime(s) == String_validate_datetime(s, FALSE)

String_validate_timedelta(s, strict) == bytes_as_timedelta(String_as_error_value(s), s)

String_strict_timedelta(s) == String_validate_timedelta(s, FALSE)

----------------------------------------------------------------------------
(* errors/validation_exception.rs: line errors and their aggregate.        *)

PyNone == [py |-> "NoneType"]
PyInt(i) == [py |-> "int", i |-> i]
PyStr(s) == [py |-> "str", s |-> s]

\* JsonInput::to_object: the document tree as Python objects.
RECURSIVE JsonInput_to_object(_)
JsonInput_to_object(v) ==
    IF v.t = "Null" THEN PyNone
    ELSE IF v.t = "Bool" THEN [py |-> "bool", b |-> v.b]
    ELSE IF v.t = "Int" THEN PyInt(v.i)
    ELSE IF v.t = "Float" THEN [py |-> "float", f |-> v.f]
    ELSE IF v.t = "String" THEN PyStr(v.s)
    ELSE IF v.t = "Array" THEN [py |-> "list", a |-> [i \in 1..Len(v.a) |-> JsonInput_to_object(v.a[i])]]
    ELSE [py |-> "dict",
          o |-> [i \in 1..Len(v.o) |-> [k |-> v.o[i].k, v |-> JsonInput_to_object(v.o[i].v)]]]

\* InputValue::to_object: the owned Python object of an error value.
InputValue_to_object(iv) ==
    IF iv.iv = "PyObject" THEN iv.py
    ELSE IF iv.iv = "String" THEN PyStr(iv.s)
    ELSE JsonInput_to_object(iv.json)

\* From<PyObject> for InputValue
InputValue_from_PyObject(o) == IV_PyObject(o)

\* IntoPy<PyLineError> for ValLineError
ValLineError_into_py(e) ==
    [kind |-> e.kind,
     location |-> e.location,
     input_value |-> InputValue_to_object(e.input_value)]

\* ValLineError_from losing the location.
ValLineError_from_no_location(py_line_error) ==
    [kind |-> py_line_error.kind,
     location |-> <<>>,
     input_value |-> InputValue_from_PyObject(py_line_error.input_value)]

\* From<PyLineError> for ValLineError
ValLineError_from(py_line_error) ==
    [kind |-> py_line_error.kind,
     location |-> py_line_error.location,
     input_value |-> InputValue_from_PyObject(py_line_error.input_value)]

LineErrors(es) == [ve |-> "LineErrors", line_errors |-> es]
InternalErr(e) == [ve |-> "InternalErr", err |-> e]

\* ValidationError::py_new
py_new(line_errors, title) == [line_errors |-> line_errors, title |-> title]

\* PyErr::new::<ValidationError, _>(args): the exception, built by py_new.
PyErr_ValidationError(line_errors, title) ==
    [pyerr |-> "ValidationError", value |-> py_new(line_errors, title)]

\* from_val_error collecting the line errors in reverse.
from_val_error_reversed(title, error) ==
    IF error.ve = "LineErrors"
    THEN PyErr_ValidationError(
             [i \in 1..Len(error.line_errors) |->
                 ValLineError_into_py(error.line_errors[Len(error.line_errors) + 1 - i])],
             title)
    ELSE error.err

\* ValidationError::from_val_error
from_val_error(title, error) ==
    IF error.ve = "LineErrors"
    THEN PyErr_ValidationError(
             [i \in 1..Len(error.line_errors) |-> ValLineError_into_py(error.line_errors[i])],
             title)
    ELSE error.err

\* From<ValidationError> for ValError
ValError_from(ve) ==
    LineErrors([i \in 1..Len(ve.line_errors) |->
                   ValLineError_from(ve.line_errors[i])])

ValidationError_title(self) == self.title

ValidationError_error_count(self) == Len(self.line_errors)

\* ErrorKind::to_string and ErrorKind::render: the kind's name and message.
ErrorKind_to_string(kind) == [kind_name |-> kind]
ErrorKind_render(kind) == [message_of |-> kind]

\* PyLineError::as_dict
PyLineError_as_dict(self) ==
    [kind |-> ErrorKind_to_string(self.kind),
     loc |-> self.location,
     message |-> ErrorKind_render(self.kind),
     input_value |-> self.input_value]

\* ValidationError::errors
ValidationError_errors(self) ==
    [py |-> "list",
     a |-> [i \in 1..Len(self.line_errors) |-> PyLineError_as_dict(self.line_errors[i])]]

----------------------------------------------------------------------------
(* Rendering: a String is UTF-8; len() and slicing count bytes.            *)

TwoByteChars == {"U+00E9", "U+00F1", "U+00FC", "U+00DF"}

Utf8Len(c) == IF c \in TwoByteChars THEN 2 ELSE 1

\* str::len: the length in bytes.
RECURSIVE ByteLen(_)
ByteLen(s) == IF s = <<>> THEN 0 ELSE Utf8Len(s[1]) + ByteLen(Tail(s))

\* str::is_char_boundary
IsCharBoundary(s, k) == \E i \in 0..Len(s) : ByteLen(SubSeq(s, 1, i)) = k

\* The characters before byte k, a boundary.
CharsBefore(s, k) == CHOOSE i \in 0..Len(s) : ByteLen(SubSeq(s, 1, i)) = k

\* A call either panics or returns.
Panic == [panic |-> TRUE]
Returns(x) == [panic |-> FALSE, v |-> x]

\* &s[a..b]: panics unless both ends are character boundaries.
StrSlice(s, a, b) ==
    IF a <= b /\ IsCharBoundary(s, a) /\ IsCharBoundary(s, b)
    THEN Returns(SubSeq(s, CharsBefore(s, a) + 1, CharsBefore(s, b)))
    ELSE Panic

TruncateOver == 50
TruncateHead == 25
TruncateTail == 24

\* truncate_input_value!: what follows ", input_value=".
truncate_input_value(value) ==
    IF ByteLen(value) > TruncateOver
    THEN LET head == StrSlice(value, 0, TruncateHead)
             tail == StrSlice(value, ByteLen(value) - TruncateTail, ByteLen(value))
         IN  IF head.panic \/ tail.panic THEN Panic
             ELSE Returns(head.v \o <<".", ".", ".">> \o tail.v)
    ELSE Returns(value)

\* Python's repr() and str() of the objects the model holds in line errors.
repr_string(o) ==
    IF o.py = "str" THEN <<"'">> \o o.s \o <<"'">>
    ELSE IF o.py = "int" THEN IntToString(o.i)
    ELSE <<"N", "o", "n", "e">>

PyObject_to_string(o) ==
    IF o.py = "str" THEN o.s
    ELSE IF o.py = "int" THEN IntToString(o.i)
    ELSE <<"N", "o", "n", "e">>

\* PyLineError::pretty; py is TRUE for Some(py), FALSE for None.
PyLineError_pretty(self, py) ==
    LET shown == IF py THEN truncate_input_value(repr_string(self.input_value))
                 ELSE truncate_input_value(PyObject_to_string(self.input_value))
    IN  IF shown.panic THEN Panic
        ELSE Returns([location |-> self.location,
                      message |-> ErrorKind_render(self.kind),
                      kind |-> ErrorKind_to_string(self.kind),
                      input_value |-> shown.v,
                      input_type |-> IF py THEN self.input_value.py ELSE "-"])

\* pretty_py_line_errors: pretty never returns Err, so every line is kept.
pretty_py_line_errors(py, line_errors) ==
    IF \E i \in 1..Len(line_errors) : PyLineError_pretty(line_errors[i], py).panic
    THEN Panic
    ELSE Returns([i \in 1..Len(line_errors) |-> PyLineError_pretty(line_errors[i], py).v])

\* ValidationError::display; with Some(py) the title must extract as a str.
ValidationError_display(self, py) ==
    LET count == Len(self.line_errors)
        lines == pretty_py_line_errors(py, self.line_errors)
    IN  IF (py /\ self.title.py # "str") \/ lines.panic THEN Panic
        ELSE Returns([count |-> count,
                      plural |-> IF count = 1 THEN "" ELSE "s",
                      title |-> IF py THEN self.title.s ELSE <<"S", "c", "h", "e", "m", "a">>,
                      line_errors |-> lines.v])

ValidationError_repr(self) == ValidationError_display(self, TRUE)

ValidationError_str(self) == ValidationError_repr(self)

----------------------------------------------------------------------------
(* The inputs the model draws from.                                        *)

Alphabet == {"0", "1", "4", "-", "."}

\* Every text over Alphabet up to MaxTextLen, and the texts the coercions
\* single out: boolean tokens, signed and fractional numbers, temporal text.
TokenTexts ==
    {<<"y", "e", "s">>,
     <<"Y", "E", "S">>,
     <<"Y", "e", "s">>,
     <<"n", "o">>,
     <<"o", "n">>,
     <<"o", "f", "f">>,
     <<"t", "r", "u", "e">>,
     <<"f", "a", "l", "s", "e">>,
     <<"m", "a", "y", "b", "e">>,
     <<"t">>,
     <<"+", "4">>,
     <<"4", ".", "5">>,
     <<"4", ".", "5", "0">>,
     <<" ", "1">>,
     <<"1", "e", "2">>,
     <<"1", "2", ":", "3", "0">>,
     <<"2", "5", ":", "0", "0">>,
     <<"2", "0", "2", "2", "-", "0", "1", "-", "0", "2">>,
     <<"2", "0", "2", "2", "-", "0", "1", "-", "0", "2", "T", "1", "2", ":", "3", "0">>,
     <<"P", "1", "D">>,
     <<"P", "2">>}

Texts == UNION {[1..k -> Alphabet] : k \in 0..MaxTextLen} \cup TokenTexts

IntInputs ==
    (-MaxInt..MaxInt)
    \cup {SecondsPerDay - 1, SecondsPerDay, -SecondsPerDay,
          MaxEpochSeconds, MaxEpochSeconds + 1, -MaxEpochSeconds - 1,
          MaxDurationSeconds, MaxDurationSeconds + 1, -MaxDurationSeconds - 1}

FloatInputs ==
    {Flt(n, 2) : n \in -(2 * MaxInt + 1)..(2 * MaxInt + 1)}
    \cup {Flt(2 * i + 1, 2) : i \in IntInputs \ (-MaxInt..MaxInt)}
    \cup {Flt(i, 1) : i \in IntInputs \ (-MaxInt..MaxInt)}

ArrayItems == {JNull, JInt(1), JString(<<"a">>)}

Arrays == UNION {[1..k -> ArrayItems] : k \in 0..MaxArrayLen}

ObjectKeys == {<<"a">>, <<"b">>}

\* An object's keys are distinct.
Objects ==
    {o \in UNION {[1..k -> [k : ObjectKeys, v : ArrayItems]] : k \in 0..MaxArrayLen} :
        \A i, j \in 1..Len(o) : o[i].k = o[j].k => i = j}

JsonInputs ==
    {JNull}
    \cup {JBool(b) : b \in BOOLEAN}
    \cup {JInt(i) : i \in IntInputs}
    \cup {JFloat(f) : f \in FloatInputs}
    \cup {JString(t) : t \in Texts}
    \cup {JArray(a) : a \in Arrays}
    \cup {JObject(o) : o \in Objects}

BareStrings == {BareString(t) : t \in Texts}

ErrorKinds == {"IntParsing", "Missing"}

Locations == {<<>>, <<[loc_s |-> <<"i", "t", "e", "m", "s">>], [loc_i |-> 1]>>}

PyObjects == {PyInt(4), PyStr(<<"a">>)}

InputValues ==
    {IV_PyObject(PyInt(4)), IV_JsonInput(JString(<<"a">>)), IV_String(<<"b">>)}

ValLineErrors == [kind : ErrorKinds, location : Locations, input_value : InputValues]

PyLineErrors == [kind : ErrorKinds, location : Locations, input_value : PyObjects]

\* What a validation call that failed hands to from_val_error: one line error
\* or more, or an internal error.
InternalErrs == {[pyerr |-> "RecursionError"], [pyerr |-> "TypeError"]}

ValErrors ==
    {LineErrors(es) : es \in UNION {[1..k -> ValLineErrors] : k \in 1..MaxErrors}}
    \cup {InternalErr(e) : e \in InternalErrs}

\* What Python code can pass to the ValidationError constructor.
PyLineErrorLists == UNION {[1..k -> PyLineErrors] : k \in 0..MaxErrors}

Titles == {PyStr(<<"M", "o", "d", "e", "l">>), PyStr(<<"I", "t", "e", "m">>), PyInt(1)}

\* Displayable forms: a ASCII characters, k two-byte characters, b ASCII
\* characters, each character of a run different from the others of the run.
AsciiRun == Lower \o Upper \o Digits
WideRun == <<"U+00E9", "U+00F1", "U+00FC", "U+00DF">>

RenderText(a, k, b) == SubSeq(AsciiRun, 1, a) \o SubSeq(WideRun, 1, k) \o SubSeq(AsciiRun, 1, b)

RenderLineErrors ==
    {[kind |-> "IntParsing", location |-> <<>>, input_value |-> PyStr(RenderText(a, k, b))] :
        a \in 0..MaxRun, k \in 0..MaxWide, b \in 0..MaxRun}

----------------------------------------------------------------------------
(* The state machine. A behaviour exercises one part of the interface:     *)
(* the coercions of one input, one failed validation call and its          *)
(* aggregate, or the rendering of one line error.                          *)

IsValidationError(e) == e # None /\ e.pyerr = "ValidationError"

Init ==
    \/ /\ session = "coerce"
       /\ input \in JsonInputs \cup BareStrings
       /\ call = None /\ result = None
       /\ val_error = None /\ exc = None /\ caught = None /\ ret = None /\ rendered = None
    \/ /\ session = "errors"
       /\ val_error \in ValErrors \cup {None}
       /\ input = None /\ call = None /\ result = None
       /\ exc = None /\ caught = None /\ ret = None /\ rendered = None
    \/ /\ session = "render"
       /\ input \in RenderLineErrors
       /\ call = None /\ result = None
       /\ val_error = None /\ exc = None /\ caught = None /\ ret = None /\ rendered = None

\* A method of impl Input for JsonInput is called on the input.
OnJson(m, r) ==
    /\ session = "coerce" /\ input.t # "BareString"
    /\ call' = m /\ result' = r
    /\ UNCHANGED <<session, input, val_error, exc, caught, ret, rendered>>

\* A method of impl Input for String is called on the input.
OnString(m, r) ==
    /\ session = "coerce" /\ input.t = "BareString"
    /\ call' = m /\ result' = r
    /\ UNCHANGED <<session, input, val_error, exc, caught, ret, rendered>>

M(name) == [m |-> name]
MS(name, strict) == [m |-> name, strict |-> strict]

\* One method of impl Input for JsonInput is called.
JsonInputStep ==
    \/ OnJson(M("as_loc_item"), [loc_item |-> JsonInput_as_loc_item(input)])
    \/ OnJson(M("as_error_value"), [error_value |-> JsonInput_as_error_value(input)])
    \/ OnJson(M("is_none"), [is_none |-> JsonInput_is_none(input)])
    \/ OnJson(M("strict_str"), JsonInput_strict_str(input))
    \/ OnJson(M("lax_str"), JsonInput_lax_str(input))
    \/ OnJson(M("strict_bytes"), JsonInput_strict_bytes(input))
    \/ OnJson(M("strict_bool"), JsonInput_strict_bool(input))
    \/ OnJson(M("lax_bool"), JsonInput_lax_bool(input))
    \/ OnJson(M("strict_int"), JsonInput_strict_int(input))
    \/ OnJson(M("lax_int"), JsonInput_lax_int(input))
    \/ OnJson(M("strict_float"), JsonInput_strict_float(input))
    \/ OnJson(M("lax_float"), JsonInput_lax_float(input))
    \/ OnJson(M("strict_dict"), JsonInput_strict_dict(input))
    \/ OnJson(M("strict_list"), JsonInput_strict_list(input))
    \/ OnJson(M("strict_tuple"), JsonInput_strict_tuple(input))
    \/ OnJson(M("strict_set"), JsonInput_strict_set(input))
    \/ OnJson(M("strict_frozenset"), JsonInput_strict_frozenset(input))
    \/ OnJson(M("strict_date"), JsonInput_strict_date(input))
    \/ OnJson(M("strict_time"), JsonInput_strict_time(input))
    \/ OnJson(M("lax_time"), JsonInput_lax_time(input))
    \/ OnJson(M("strict_datetime"), JsonInput_strict_datetime(input))
    \/ OnJson(M("lax_datetime"), JsonInput_lax_datetime(input))
    \/ OnJson(M("strict_timedelta"), JsonInput_strict_timedelta(input))
    \/ OnJson(M("lax_timedelta"), JsonInput_lax_timedelta(input))
    \/ \E strict \in BOOLEAN : OnJson(MS("validate_bytes", strict), JsonInput_validate_bytes(input, strict))
    \/ \E strict \in BOOLEAN : OnJson(MS("validate_dict", strict), JsonInput_validate_dict(input, strict))
    \/ \E strict \in BOOLEAN : OnJson(MS("validate_list", strict), JsonInput_validate_list(input, strict))
    \/ \E strict \in BOOLEAN : OnJson(MS("validate_tuple", strict), JsonInput_validate_tuple(input, strict))
    \/ \E strict \in BOOLEAN : OnJson(MS("validate_set", strict), JsonInput_validate_set(input, strict))
    \/ \E strict \in BOOLEAN : OnJson(MS("validate_frozenset", strict), JsonInput_validate_frozenset(input, strict))
    \/ \E strict \in BOOLEAN : OnJson(MS("validate_date", strict), JsonInput_validate_date(input, strict))

\* One method of impl Input for String is called.
StringStep ==
    \/ OnString(M("as_loc_item"), [loc_item |-> String_as_loc_item(input.s)])
    \/ OnString(M("as_error_value"), [error_value |-> String_as_error_value(input.s)])
    \/ OnString(M("is_none"), [is_none |-> String_is_none(input.s)])
    \/ OnString(M("strict_str"), String_strict_str(input.s))
    \/ OnString(M("strict_bytes"), String_strict_bytes(input.s))
    \/ OnString(M("strict_bool"), String_strict_bool(input.s))
    \/ OnString(M("lax_bool"), String_lax_bool(input.s))
    \/ OnString(M("strict_int"), String_strict_int(input.s))
    \/ OnString(M("lax_int"), String_lax_int(input.s))
    \/ OnString(M("strict_float"), String_strict_float(input.s))
    \/ OnString(M("lax_float"), String_lax_float(input.s))
    \/ OnString(M("strict_dict"), String_strict_dict(input.s))
    \/ OnString(M("strict_list"), String_strict_list(input.s))
    \/ OnString(M("strict_tuple"), String_strict_tuple(input.s))
    \/ OnString(M("strict_set"), String_strict_set(input.s))
    \/ OnString(M("strict_frozenset"), String_strict_frozenset(input.s))
    \/ OnString(M("strict_date"), String_strict_date(input.s))
    \/ OnString(M("strict_time"), String_strict_time(input.s))
    \/ OnString(M("strict_datetime"), String_strict_datetime(input.s))
    \/ OnString(M("strict_timedelta"), String_strict_timedelta(input.s))
    \/ \E strict \in BOOLEAN : OnString(MS("validate_str", strict), String_validate_str(input.s, strict))
    \/ \E strict \in BOOLEAN : OnString(MS("validate_bytes", strict), String_validate_bytes(input.s, strict))
    \/ \E strict \in BOOLEAN : OnString(MS("validate_dict", strict), String_validate_dict(input.s, strict))
    \/ \E strict \in BOOLEAN : OnString(MS("validate_list", strict), String_validate_list(input.s, strict))
    \/ \E strict \in BOOLEAN : OnString(MS("validate_tuple", strict), String_validate_tuple(input.s, strict))
    \/ \E strict \in BOOLEAN : OnString(MS("validate_set", strict), String_validate_set(input.s, strict))
    \/ \E strict \in BOOLEAN : OnString(MS("validate_frozenset", strict), String_validate_frozenset(input.s, strict))
    \/ \E strict \in BOOLEAN : OnString(MS("validate_date", strict), String_validate_date(input.s, strict))
    \/ \E strict \in BOOLEAN : OnString(MS("validate_time", strict), String_validate_time(input.s, strict))
    \/ \E strict \in BOOLEAN : OnString(MS("validate_datetime", strict), String_validate_datetime(input.s, strict))
    \/ \E strict \in BOOLEAN : OnString(MS("validate_timedelta", strict), String_validate_timedelta(input.s, strict))

\* A failed validation call ends: its ValError becomes the exception raised.
FromValError ==
    \E title \in Titles :
        /\ session = "errors" /\ val_error # None
        /\ exc' = from_val_error(title, val_error)
        /\ val_error' = None
        /\ ret' = None
        /\ UNCHANGED <<session, input, call, result, caught, rendered>>

\* Python code constructs a ValidationError and raises it.
PyNew ==
    \E line_errors \in PyLineErrorLists, title \in Titles :
        /\ session = "errors" /\ val_error = None /\ exc = None /\ caught = None
        /\ exc' = PyErr_ValidationError(line_errors, title)
        /\ UNCHANGED <<session, input, call, result, val_error, caught, ret, rendered>>

\* A wrap function's ValidationError is caught and converted back to a ValError.
IntoValError ==
    /\ session = "errors" /\ IsValidationError(exc) /\ caught = None
    /\ val_error' = ValError_from(exc.value)
    /\ caught' = exc.value
    /\ exc' = None
    /\ ret' = None
    /\ UNCHANGED <<session, input, call, result, rendered>>

\* A read-only method of the aggregate raised last.
Read(m, v) ==
    /\ session = "errors" /\ IsValidationError(exc)
    /\ ret' = [m |-> m, v |-> v]
    /\ UNCHANGED <<session, input, call, result, val_error, exc, caught, rendered>>

\* title, error_count, errors, __repr__ or __str__ is called.
ReadAggregate ==
    \/ Read("title", ValidationError_title(exc.value))
    \/ Read("error_count", [count |-> ValidationError_error_count(exc.value)])
    \/ Read("errors", ValidationError_errors(exc.value))
    \/ Read("__repr__", ValidationError_repr(exc.value))
    \/ Read("__str__", ValidationError_str(exc.value))

\* A line error is rendered, with the interpreter (Some(py)) or without.
Pretty ==
    \E py \in BOOLEAN :
        /\ session = "render"
        /\ rendered' = [py |-> py, out |-> PyLineError_pretty(input, py)]
        /\ UNCHANGED <<session, input, call, result, val_error, exc, caught, ret>>

Next ==
    \/ JsonInputStep
    \/ StringStep
    \/ FromValError
    \/ PyNew
    \/ IntoValError
    \/ ReadAggregate
    \/ Pretty

Spec == Init /\ [][Next]_vars

----------------------------------------------------------------------------
(* The claims.                                                             *)

\* The kind of a failed coercion.
ErrKind(r) == r.err.line_errors[1].kind

\* The kinds that say a number is out of the target's range.
RangeKinds == {"TimeOutOfRange", "DateTimeOutOfRange", "TimeDeltaOutOfRange"}

OnJsonInput == session = "coerce" /\ input.t # "BareString" /\ call # None
OnBareString == session = "coerce" /\ input.t = "BareString" /\ call # None

\* C1: from_val_error turns LineErrors(es) into exactly one ValidationError
\* aggregate that holds every line error of es, in order and with the same
\* count (error_count = the length of es), each keeping its kind and
\* location; it turns InternalErr(e) into e itself, which is no aggregate and
\* holds no line error.
C1_FromValError ==
    [][(session = "errors" /\ val_error # None /\ val_error' = None) =>
        IF val_error.ve = "LineErrors"
        THEN /\ IsValidationError(exc')
             /\ ValidationError_error_count(exc'.value) = Len(val_error.line_errors)
             /\ \A i \in 1..Len(val_error.line_errors) :
                    /\ exc'.value.line_errors[i].kind = val_error.line_errors[i].kind
                    /\ exc'.value.line_errors[i].location = val_error.line_errors[i].location
        ELSE /\ exc' = val_error.err
             /\ ~IsValidationError(exc')
             /\ exc' \in InternalErrs]_vars

\* C1's case: an aggregate of two different line errors that from_val_error
\* built from the ValError a wrap function's exception was converted to.
C1_Witness ==
    /\ caught # None /\ IsValidationError(exc)
    /\ Len(exc.value.line_errors) = 2
    /\ exc.value.line_errors[1] # exc.value.line_errors[2]

\* C2 as claimed: every ValidationError aggregate that from_val_error or the
\* constructor builds holds at least one line error (error_count() >= 1), and
\* title, error_count, errors, __repr__ and __str__ leave the aggregate as it is.
C2_NonEmptyAggregate ==
    [][/\ IsValidationError(exc') => ValidationError_error_count(exc'.value) >= 1
       /\ (ret' # ret /\ ret' # None) => exc' = exc]_vars

\* The call on the document-tree value succeeded exactly when the value has
\* one of `shapes`, and failed with `kind` otherwise.
SucceedsExactlyOn(shapes, kind) ==
    /\ result.ok <=> input.t \in shapes
    /\ ~result.ok => ErrKind(result) = kind

\* C3: on a document-tree value, strict_str succeeds exactly for a String,
\* strict_bool for a Bool, strict_int for an Int, strict_float for a Float or
\* an Int; a success returns the held value (an Int as the float of the same
\* value for strict_float); any other shape fails with StrType, BoolType,
\* IntType, FloatType respectively.
C3_StrictScalars ==
    OnJsonInput =>
        /\ call = M("strict_str") =>
            /\ SucceedsExactlyOn({"String"}, "StrType")
            /\ result.ok => result.v = VStr(input.s)
        /\ call = M("strict_bool") =>
            /\ SucceedsExactlyOn({"Bool"}, "BoolType")
            /\ result.ok => result.v = VBool(input.b)
        /\ call = M("strict_int") =>
            /\ SucceedsExactlyOn({"Int"}, "IntType")
            /\ result.ok => result.v = VInt(input.i)
        /\ call = M("strict_float") =>
            /\ SucceedsExactlyOn({"Float", "Int"}, "FloatType")
            /\ input.t = "Float" => result.v = VFloat(input.f)
            /\ input.t = "Int" => result.v.float.d = 1 /\ result.v.float.n = input.i

\* C3's case: strict_float took an Int and returned it as a float.
C3_Witness ==
    /\ OnJsonInput /\ call = M("strict_float")
    /\ input = JInt(4) /\ result.ok /\ result.v = VFloat(Flt(8, 2))

\* C4: on a document-tree value, lax_int returns 1 for true and 0 for false,
\* i for Int i, n for a Float equal to the whole number n, the parsed value for
\* a String that is a base-10 integer; it fails with the not-an-integer kind
\* (never IntType) for a Float with a fractional part, with IntParsing for any
\* other String, and with IntType for Null, Array and Object.
C4_LaxInt ==
    (OnJsonInput /\ call = M("lax_int")) =>
        /\ input.t = "Bool" => result = Ok(VInt(IF input.b THEN 1 ELSE 0))
        /\ input.t = "Int" => result = Ok(VInt(input.i))
        /\ input.t = "Float" =>
            IF input.f.n % input.f.d = 0
            THEN result = Ok(VInt(input.f.n \div input.f.d))
            ELSE ~result.ok /\ ErrKind(result) = "FloatNotInt" /\ ErrKind(result) # "IntType"
        /\ input.t = "String" =>
            IF ParseI64(input.s).ok
            THEN result = Ok(VInt(ParseI64(input.s).int))
            ELSE ~result.ok /\ ErrKind(result) = "IntParsing"
        /\ input.t \in {"Null", "Array", "Object"} =>
            ~result.ok /\ ErrKind(result) = "IntType"

\* C4's case: lax_int refused 4.5 as not an integer.
C4_Witness ==
    /\ OnJsonInput /\ call = M("lax_int")
    /\ input = JFloat(Flt(9, 2)) /\ ~result.ok /\ ErrKind(result) = "FloatNotInt"

\* The fixed allow-list of boolean tokens, compared without regard to case.
BoolOfToken(s) ==
    IF ToLower(s) \in {<<"t", "r", "u", "e">>, <<"y", "e", "s">>, <<"1">>, <<"o", "n">>}
    THEN "true"
    ELSE IF ToLower(s) \in {<<"f", "a", "l", "s", "e">>, <<"n", "o">>, <<"0">>, <<"o", "f", "f">>}
    THEN "false"
    ELSE "neither"

\* C5: on a document-tree value, lax_bool succeeds exactly for a Bool (returned
\* as it is), a String of the allow-list, an Int equal to 0 or 1 and a Float
\* equal to 0 or 1; a String outside the allow-list fails with BoolParsing,
\* not BoolType; Null, Array and Object fail with BoolType; a Float with a
\* fractional part fails.
C5_LaxBool ==
    (OnJsonInput /\ call = M("lax_bool")) =>
        /\ result.ok <=>
            \/ input.t = "Bool"
            \/ input.t = "String" /\ BoolOfToken(input.s) # "neither"
            \/ input.t = "Int" /\ input.i \in {0, 1}
            \/ input.t = "Float" /\ input.f \in {Flt(0, 1), Flt(1, 1)}
        /\ input.t = "Bool" => result = Ok(VBool(input.b))
        /\ (input.t = "String" /\ result.ok) =>
            result.v = VBool(BoolOfToken(input.s) = "true")
        /\ (input.t = "Int" /\ result.ok) => result.v = VBool(input.i = 1)
        /\ (input.t = "Float" /\ result.ok) => result.v = VBool(input.f = Flt(1, 1))
        /\ (input.t = "String" /\ ~result.ok) => ErrKind(result) = "BoolParsing"
        /\ input.t \in {"Null", "Array", "Object"} => ErrKind(result) = "BoolType"
        /\ (input.t = "Float" /\ input.f.d # 1) => ~result.ok

\* C5's case: lax_bool refused the string "maybe" with BoolParsing.
C5_Witness ==
    /\ OnJsonInput /\ call = M("lax_bool")
    /\ input = JString(<<"m", "a", "y", "b", "e">>)
    /\ ~result.ok /\ ErrKind(result) = "BoolParsing"

\* The kind each structural target fails with.
StructuralKind(m) ==
    CASE m \in {"validate_dict", "strict_dict"} -> "DictType"
      [] m \in {"validate_list", "strict_list"} -> "ListType"
      [] m \in {"validate_tuple", "strict_tuple"} -> "TupleType"
      [] m \in {"validate_set", "strict_set"} -> "SetType"
      [] m \in {"validate_frozenset", "strict_frozenset"} -> "FrozenSetType"

SequenceMethods ==
    {"validate_list", "strict_list", "validate_tuple", "strict_tuple",
     "validate_set", "strict_set", "validate_frozenset", "strict_frozenset"}

MappingMethods == {"validate_dict", "strict_dict"}

\* C6: on a document-tree value, list, tuple, set and frozenset each succeed
\* exactly for an Array, in strict and in lax mode, and return a view of that
\* array's items in order; the mapping operation succeeds exactly for an
\* Object, in both modes; any other shape fails with the target's own kind
\* (ListType, TupleType, SetType, FrozenSetType, DictType).
C6_Structural ==
    OnJsonInput =>
        /\ call.m \in SequenceMethods =>
            /\ SucceedsExactlyOn({"Array"}, StructuralKind(call.m))
            /\ result.ok =>
                /\ Len(result.v.items) = Len(input.a)
                /\ \A i \in 1..Len(input.a) : result.v.items[i] = input.a[i]
        /\ call.m \in MappingMethods =>
            /\ SucceedsExactlyOn({"Object"}, StructuralKind(call.m))
            /\ result.ok => result.v.items = input.o

\* C6's case: in strict mode the frozenset operation took an Array of two
\* different items and returned them in order.
C6_Witness ==
    /\ OnJsonInput /\ call = MS("validate_frozenset", TRUE)
    /\ input = JArray(<<JInt(1), JNull>>)
    /\ result.ok /\ result.v.items = <<JInt(1), JNull>>

\* The whole seconds a numeric document-tree value stands for.
SecondsOf(v) == IF v.t = "Int" THEN v.i ELSE FloatSeconds(v.f)

\* Whether that number of seconds is outside what the target can hold.
OutOfRange(m, secs) ==
    CASE m = "lax_time" -> ~TimeInRange(secs)
      [] m = "lax_datetime" -> ~DateTimeInRange(secs)
      [] m = "lax_timedelta" -> ~DurationInRange(secs)

\* The seconds a successful temporal result holds.
ResultSeconds(m, r) ==
    CASE m = "lax_time" -> r.v.time
      [] m = "lax_datetime" -> r.v.datetime.epoch
      [] m = "lax_timedelta" -> r.v.d.seconds

\* C7 as claimed: an Int or Float given to lax_time, lax_datetime or
\* lax_timedelta is read as seconds, and every out-of-range number fails with
\* a range-error kind, for all three targets, timedelta included.
C7_NumericRange ==
    (/\ OnJsonInput /\ input.t \in {"Int", "Float"}
     /\ call.m \in {"lax_time", "lax_datetime", "lax_timedelta"}) =>
        IF OutOfRange(call.m, SecondsOf(input))
        THEN ~result.ok /\ ErrKind(result) \in RangeKinds
        ELSE result.ok /\ ResultSeconds(call.m, result) = SecondsOf(input)

\* The displayable form pretty() truncates.
DisplayableForm ==
    IF rendered.py THEN repr_string(input.input_value)
    ELSE PyObject_to_string(input.input_value)

\* C8 as claimed: pretty() renders a displayable form of more than 50
\* characters as its first 25 characters, "...", and its last 24 characters,
\* and a form of 50 characters or fewer in full; it completes for every
\* form, multi-byte characters included, so the rendered input_value never
\* exceeds 52 characters.
C8_Truncation ==
    (session = "render" /\ rendered # None) =>
        /\ ~rendered.out.panic
        /\ LET form == DisplayableForm
               shown == rendered.out.v.input_value
           IN  /\ Len(form) > 50 =>
                    shown = SubSeq(form, 1, 25) \o <<".", ".", ".">>
                            \o SubSeq(form, Len(form) - 23, Len(form))
               /\ Len(form) <= 50 => shown = form
               /\ Len(shown) <= 52

\* C9: converting a ValidationError back into line errors and aggregating them
\* again under the same title gives an aggregate equivalent to the original:
\* the same count, the same order, at every position the same kind, location
\* and input value, and so the same rendering, line by line.
C9_RoundTrip ==
    (/\ session = "errors" /\ caught # None /\ IsValidationError(exc)
     /\ exc.value.title = caught.title) =>
        /\ ValidationError_error_count(exc.value) = ValidationError_error_count(caught)
        /\ \A i \in 1..Len(caught.line_errors) :
            /\ exc.value.line_errors[i].kind = caught.line_errors[i].kind
            /\ exc.value.line_errors[i].location = caught.line_errors[i].location
            /\ exc.value.line_errors[i].input_value = caught.line_errors[i].input_value
        /\ \A py \in BOOLEAN :
            ValidationError_display(exc.value, py) = ValidationError_display(caught, py)
        /\ ValidationError_errors(exc.value) = ValidationError_errors(caught)

\* C9's case: an aggregate of two different line errors went round.
C9_Witness ==
    /\ session = "errors" /\ caught # None /\ IsValidationError(exc)
    /\ exc.value.title = caught.title /\ ret = None
    /\ Len(caught.line_errors) = 2
    /\ caught.line_errors[1].kind # caught.line_errors[2].kind
    /\ caught.line_errors[1].location # caught.line_errors[2].location
    /\ caught.line_errors[1].input_value # caught.line_errors[2].input_value

\* Input::validate_x(strict), as the trait defines it where JsonInput does
\* not: the strict method in strict mode, the lax one otherwise.
JsonInput_validate_str(v, strict) ==
    IF strict THEN JsonInput_strict_str(v) ELSE JsonInput_lax_str(v)

JsonInput_validate_time(v, strict) ==
    IF strict THEN JsonInput_strict_time(v) ELSE JsonInput_lax_time(v)

JsonInput_validate_datetime(v, strict) ==
    IF strict THEN JsonInput_strict_datetime(v) ELSE JsonInput_lax_datetime(v)

JsonInput_validate_timedelta(v, strict) ==
    IF strict THEN JsonInput_strict_timedelta(v) ELSE JsonInput_lax_timedelta(v)

\* What the same call returns on a document-tree value.
JsonInputCall(c, v) ==
    CASE c.m = "as_loc_item" -> [loc_item |-> JsonInput_as_loc_item(v)]
      [] c.m = "as_error_value" -> [error_value |-> JsonInput_as_error_value(v)]
      [] c.m = "is_none" -> [is_none |-> JsonInput_is_none(v)]
      [] c.m = "validate_str" -> JsonInput_validate_str(v, c.strict)
      [] c.m = "strict_str" -> JsonInput_strict_str(v)
      [] c.m = "validate_bytes" -> JsonInput_validate_bytes(v, c.strict)
      [] c.m = "strict_bytes" -> JsonInput_strict_bytes(v)
      [] c.m = "strict_bool" -> JsonInput_strict_bool(v)
      [] c.m = "lax_bool" -> JsonInput_lax_bool(v)
      [] c.m = "strict_int" -> JsonInput_strict_int(v)
      [] c.m = "lax_int" -> JsonInput_lax_int(v)
      [] c.m = "strict_float" -> JsonInput_strict_float(v)
      [] c.m = "lax_float" -> JsonInput_lax_float(v)
      [] c.m = "validate_dict" -> JsonInput_validate_dict(v, c.strict)
      [] c.m = "strict_dict" -> JsonInput_strict_dict(v)
      [] c.m = "validate_list" -> JsonInput_validate_list(v, c.strict)
      [] c.m = "strict_list" -> JsonInput_strict_list(v)
      [] c.m = "validate_tuple" -> JsonInput_validate_tuple(v, c.strict)
      [] c.m = "strict_tuple" -> JsonInput_strict_tuple(v)
      [] c.m = "validate_set" -> JsonInput_validate_set(v, c.strict)
      [] c.m = "strict_set" -> JsonInput_strict_set(v)
      [] c.m = "validate_frozenset" -> JsonInput_validate_frozenset(v, c.strict)
      [] c.m = "strict_frozenset" -> JsonInput_strict_frozenset(v)
      [] c.m = "validate_date" -> JsonInput_validate_date(v, c.strict)
      [] c.m = "strict_date" -> JsonInput_strict_date(v)
      [] c.m = "validate_time" -> JsonInput_validate_time(v, c.strict)
      [] c.m = "strict_time" -> JsonInput_strict_time(v)
      [] c.m = "validate_datetime" -> JsonInput_validate_datetime(v, c.strict)
      [] c.m = "strict_datetime" -> JsonInput_strict_datetime(v)
      [] c.m = "validate_timedelta" -> JsonInput_validate_timedelta(v, c.strict)
      [] c.m = "strict_timedelta" -> JsonInput_strict_timedelta(v)

\* Two calls agree: the same value, or a failure of the same kind (the error
\* values denote the same Python object).
SameOutcome(r, j) ==
    IF "ok" \in DOMAIN r
    THEN /\ r.ok = j.ok
         /\ r.ok => r.v = j.v
         /\ ~r.ok => /\ ErrKind(r) = ErrKind(j)
                     /\ InputValue_to_object(r.err.line_errors[1].input_value)
                        = InputValue_to_object(j.err.line_errors[1].input_value)
    ELSE IF "error_value" \in DOMAIN r
    THEN InputValue_to_object(r.error_value) = InputValue_to_object(j.error_value)
    ELSE r = j

\* C10: a bare string used as input behaves, for every operation and in both
\* modes, like a document-tree String of the same text: the mapping and the
\* four sequence operations fail with DictType, ListType, TupleType, SetType,
\* FrozenSetType; as_str and as_bytes return the string itself; strict
\* bool/int/float fail with BoolType/IntType/FloatType; lax bool/int/float
\* give the value or the error kind JsonInput::String gives for that text.
C10_BareStringLikeJsonString ==
    OnBareString =>
        /\ SameOutcome(result, JsonInputCall(call, JString(input.s)))
        /\ call.m \in SequenceMethods \cup MappingMethods =>
            ~result.ok /\ ErrKind(result) = StructuralKind(call.m)
        /\ call.m \in {"validate_str", "strict_str"} => result = Ok(VStr(input.s))
        /\ call.m \in {"validate_bytes", "strict_bytes"} => result = Ok(VBytes(input.s))
        /\ call.m = "strict_bool" => ~result.ok /\ ErrKind(result) = "BoolType"
        /\ call.m = "strict_int" => ~result.ok /\ ErrKind(result) = "IntType"
        /\ call.m = "strict_float" => ~result.ok /\ ErrKind(result) = "FloatType"

\* C10's case: lax_int on the bare string "4.0" failed with IntParsing.
C10_Witness ==
    /\ OnBareString /\ call = M("lax_int")
    /\ input = BareString(<<"4", ".", "0">>)
    /\ ~result.ok /\ ErrKind(result) = "IntParsing"

\* The strict operations: the strict_x methods, and validate_x called with
\* strict = true.
StrictMethods ==
    {"strict_str", "strict_bytes", "strict_bool", "strict_int", "strict_float",
     "strict_dict", "strict_list", "strict_tuple", "strict_set",
     "strict_frozenset", "strict_date", "strict_time", "strict_datetime",
     "strict_timedelta"}

IsStrictCall(c) ==
    \/ c.m \in StrictMethods
    \/ "strict" \in DOMAIN c /\ c.strict

\* What the lax operation for the target of the strict call c returns on the
\* document-tree value v: the lax_x method where JsonInput has one, and
\* validate_x(false) for the targets that have none.
JsonInputLax(c, v) ==
    CASE c.m = "strict_str" -> JsonInput_lax_str(v)
      [] c.m \in {"strict_bytes", "validate_bytes"} -> JsonInput_validate_bytes(v, FALSE)
      [] c.m = "strict_bool" -> JsonInput_lax_bool(v)
      [] c.m = "strict_int" -> JsonInput_lax_int(v)
      [] c.m = "strict_float" -> JsonInput_lax_float(v)
      [] c.m \in {"strict_dict", "validate_dict"} -> JsonInput_validate_dict(v, FALSE)
      [] c.m \in {"strict_list", "validate_list"} -> JsonInput_validate_list(v, FALSE)
      [] c.m \in {"strict_tuple", "validate_tuple"} -> JsonInput_validate_tuple(v, FALSE)
      [] c.m \in {"strict_set", "validate_set"} -> JsonInput_validate_set(v, FALSE)
      [] c.m \in {"strict_frozenset", "validate_frozenset"} ->
            JsonInput_validate_frozenset(v, FALSE)
      [] c.m \in {"strict_date", "validate_date"} -> JsonInput_validate_date(v, FALSE)
      [] c.m = "strict_time" -> JsonInput_lax_time(v)
      [] c.m = "strict_datetime" -> JsonInput_lax_datetime(v)
      [] c.m = "strict_timedelta" -> JsonInput_lax_timedelta(v)

\* C11: lax only widens strict on a document-tree value: for every target,
\* whenever the strict operation succeeded with a value, the lax operation on
\* the same input succeeds too and returns that same value.
C11_LaxWidensStrict ==
    (OnJsonInput /\ IsStrictCall(call) /\ result.ok) =>
        /\ JsonInputLax(call, input).ok
        /\ JsonInputLax(call, input).v = result.v

\* C11's case: strict_float accepted an Int, which lax_float has to accept as
\* the same float.
C11_Witness ==
    /\ OnJsonInput /\ call = M("strict_float")
    /\ input = JInt(-4) /\ result = Ok(VFloat(IntAsF64(-4)))

=============================================================================
